---- MODULE Spec2Model ----
(***************************************************************************)
(* The module type-graph builder of hegel: the tree walker traverseTree    *)
(* (utils/traverse), the AST normalisation it applies to every node, and   *)
(* the driver createModuleScope with its two handlers fillModuleScope      *)
(* (Pass 1) and afterFillierActions (Pass 2).                              *)
(***************************************************************************)
EXTENDS Integers, Sequences, FiniteSets, TLC

VARIABLES
  handlers,   \* which handlers fill the walker's slots: "build" | "any" | "unit";
              \* "norm" when the rewrite pipeline is run on its own
  ast,        \* the Program handed to createModuleScope
  pc,         \* createModuleScope's position
  stack,      \* the activation records of traverseTree, innermost last
  raised,     \* the exception in flight
  trace,      \* every handler invocation so far, in order ("unit": the last one)
  signals,    \* how many handler calls answered other than "go on" ("unit": calls made)
  errors,     \* createModuleScope's diagnostics
  typeGraph   \* the module scope with its scopes, VariableInfos and checks

vars == <<handlers, ast, pc, stack, raised, trace, signals, errors, typeGraph>>

(***************************************************************************)
(* Bounds                                                                  *)
(***************************************************************************)
\* handler calls per walk that return falsy or raise
MaxSignals == 2

(***************************************************************************)
(* AST nodes.  A node is a record with a type, a loc and its own children; *)
(* a JS array is wrapped as an Array record so that Array.isArray can be   *)
(* answered; an absent or null field is a field the record does not have.  *)
(***************************************************************************)
Null == [type |-> "null"]
Has(n, f) == f \in DOMAIN n
Arr(items) == [type |-> "Array", items |-> items]
IsArray(v) == v.type = "Array"

Identifier(name, loc) == [type |-> "Identifier", name |-> name, loc |-> loc]
\* an identifier with a type annotation, the annotation given as its type
TypedIdentifier(name, typeAnnotation, loc) ==
  [type |-> "Identifier", name |-> name, typeAnnotation |-> typeAnnotation, loc |-> loc]
NumericLiteral(loc) == [type |-> "NumericLiteral", loc |-> loc]
StringLiteral(loc) == [type |-> "StringLiteral", loc |-> loc]
ObjectPattern(loc) == [type |-> "ObjectPattern", loc |-> loc]
EmptyStatement(loc) == [type |-> "EmptyStatement", loc |-> loc]
CallExpression(callee, args, loc) ==
  [type |-> "CallExpression", callee |-> callee, arguments |-> Arr(args), loc |-> loc]
BinaryExpression(op, l, r, loc) ==
  [type |-> "BinaryExpression", operator |-> op, left |-> l, right |-> r, loc |-> loc]
AssignmentExpression(op, l, r, loc) ==
  [type |-> "AssignmentExpression", operator |-> op, left |-> l, right |-> r, loc |-> loc]
ExpressionStatement(e, loc) == [type |-> "ExpressionStatement", expression |-> e, loc |-> loc]
ReturnStatement(arg, loc) == [type |-> "ReturnStatement", argument |-> arg, loc |-> loc]
ThrowStatement(arg, loc) == [type |-> "ThrowStatement", argument |-> arg, loc |-> loc]
BlockStatement(body, loc) == [type |-> "BlockStatement", body |-> Arr(body), loc |-> loc]
IfStatement(test, cons, loc) ==
  [type |-> "IfStatement", test |-> test, consequent |-> cons, loc |-> loc]
IfElseStatement(test, cons, alt, loc) ==
  [type |-> "IfStatement", test |-> test, consequent |-> cons, alternate |-> alt, loc |-> loc]
WhileStatement(test, body, loc) ==
  [type |-> "WhileStatement", test |-> test, body |-> body, loc |-> loc]
ForStatement(init, test, body, loc) ==
  [type |-> "ForStatement", init |-> init, test |-> test, body |-> body, loc |-> loc]
ForNoInitStatement(test, body, loc) ==
  [type |-> "ForStatement", test |-> test, body |-> body, loc |-> loc]
ForInStatement(left, right, body, loc) ==
  [type |-> "ForInStatement", left |-> left, right |-> right, body |-> body, loc |-> loc]
ForOfStatement(left, right, body, loc) ==
  [type |-> "ForOfStatement", left |-> left, right |-> right, body |-> body, loc |-> loc]
VariableDeclarator(id, init, loc) ==
  [type |-> "VariableDeclarator", id |-> id, init |-> init, loc |-> loc]
VariableDeclaratorNoInit(id, loc) == [type |-> "VariableDeclarator", id |-> id, loc |-> loc]
VariableDeclaration(decls, loc) ==
  [type |-> "VariableDeclaration", declarations |-> Arr(decls), loc |-> loc]
FunctionDeclaration(id, params, body, loc) ==
  [type |-> "FunctionDeclaration", id |-> id, params |-> Arr(params), body |-> body, loc |-> loc]
ArrowFunctionExpression(params, body, loc) ==
  [type |-> "ArrowFunctionExpression", params |-> Arr(params), body |-> body, loc |-> loc]
CatchClause(param, body, loc) ==
  [type |-> "CatchClause", param |-> param, body |-> body, loc |-> loc]
TryStatement(block, handler, loc) ==
  [type |-> "TryStatement", block |-> block, handler |-> handler, loc |-> loc]
ExportNamedDeclaration(decl, loc) ==
  [type |-> "ExportNamedDeclaration", declaration |-> decl, loc |-> loc]
Program(body) == [type |-> "Program", body |-> Arr(body), loc |-> 0]

\* a record with one more (or one replaced) field: the object spread {...n, f: v}
With(n, f, v) == [g \in DOMAIN n \cup {f} |-> IF g = f THEN v ELSE n[g]]

(***************************************************************************)
(* utils/nodes (NODE.isFunction, NODE.isScopeCreator)                      *)
(***************************************************************************)
isFunction(n) ==
  n.type \in {"FunctionDeclaration", "FunctionExpression", "ArrowFunctionExpression",
              "ObjectMethod", "ClassMethod"}

isScopeCreator(n) ==
  isFunction(n) \/ n.type \in {"BlockStatement", "ClassDeclaration", "ClassExpression",
                               "ObjectExpression"}

(***************************************************************************)
(* Normalisation: the five rewrites and their composition.  A rewrite that *)
(* dereferences a missing field raises a TypeError: it answers Null.       *)
(***************************************************************************)
mixBodyToArrowFunctionExpression(n) ==
  IF n.type # "ArrowFunctionExpression" \/ n.body.type = "BlockStatement"
  THEN n
  ELSE [n EXCEPT !.body =
          BlockStatement(<<ReturnStatement(n.body, n.body.loc)>>, n.body.loc)]

mixBlockForStatements(n) ==
  IF n.type \notin {"IfStatement", "WhileStatement", "ForStatement",
                    "ForInStatement", "ForOfStatement"}
  THEN n
  ELSE LET a == IF n.type = "IfStatement" /\ Has(n, "alternate")
                   /\ n.alternate.type # "BlockStatement"
                THEN [n EXCEPT !.alternate = BlockStatement(<<n.alternate>>, n.alternate.loc)]
                ELSE n
           propertyName == IF n.type = "IfStatement" THEN "consequent" ELSE "body"
       IN IF a[propertyName].type = "BlockStatement"
          THEN a
          ELSE [a EXCEPT ![propertyName] =
                  BlockStatement(<<a[propertyName]>>, a[propertyName].loc)]

getInitFor(n) ==
  CASE n.type = "ForInStatement" -> [type |-> "PureKey", of |-> n.right]
    [] n.type = "ForOfStatement" -> [type |-> "PureValue", of |-> n.right]
    [] OTHER -> Null

mixDeclarationsInideForBlock(n) ==
  IF n.type \notin {"ForInStatement", "ForOfStatement"}
     /\ (n.type # "ForStatement" \/ ~Has(n, "init"))
  THEN n
  ELSE IF n.body.type = "EmptyStatement" /\ ~Has(n, "init")
  THEN Null   \* currentNode.init.loc of an undefined init
  ELSE LET b == IF n.body.type = "EmptyStatement"
                THEN BlockStatement(<<>>, n.init.loc)
                ELSE n.body
           d == IF Has(n, "init") THEN n.init ELSE With(n.left, "init", getInitFor(n))
       IN IF ~(Has(b, "body") /\ IsArray(b.body))
          THEN Null   \* currentNode.body.body.unshift of a body that has no array
          ELSE [n EXCEPT !.body = [b EXCEPT !.body = Arr(<<d>> \o b.body.items)]]

mixExportInfo(n) ==
  IF n.type \notin {"ExportNamedDeclaration", "ExportDefaultDeclaration"}
  THEN n
  ELSE IF n.declaration.type # "VariableDeclaration"
  THEN With(n.declaration, "exportAs",
            IF n.type = "ExportDefaultDeclaration" THEN "default" ELSE n.declaration.id.name)
  ELSE [n.declaration EXCEPT !.declarations =
          Arr([k \in DOMAIN n.declaration.declarations.items |->
                 With(n.declaration.declarations.items[k], "exportAs",
                      n.declaration.declarations.items[k].id.name)])]

mixTryCatchInfo(n) ==
  IF n.type # "TryStatement"
  THEN n
  ELSE [n EXCEPT !.block =
          IF Has(n, "handler") THEN With(n.block, "catchBlock", n.handler) ELSE n.block]

\* compose(f, ...fns): f first, then the others from left to right
getCurrentNode(n) ==
  LET a == mixDeclarationsInideForBlock(n)
  IN IF a = Null THEN Null
     ELSE mixExportInfo(mixBlockForStatements(mixTryCatchInfo(
            mixBodyToArrowFunctionExpression(a))))

(***************************************************************************)
(* getBody: the children of a node, and whether they come as an array.     *)
(***************************************************************************)
\* the fields of the fallback list that the node has, in the list's order
StructuralChildren(n) ==
  LET one(f) == IF Has(n, f) THEN <<n[f]>> ELSE <<>>
      sub(f, g) == IF Has(n, f) /\ Has(n[f], g) THEN <<n[f][g]>> ELSE <<>>
  IN one("block") \o one("handler") \o one("finalizer") \o one("consequent")
     \o one("alternate") \o one("value") \o sub("init", "callee") \o one("init")
     \o one("object") \o one("property") \o one("left") \o one("right")
     \o one("argument") \o sub("expression", "callee") \o one("expression")
     \o one("callee") \o (IF Has(n, "elements") THEN n.elements.items ELSE <<>>)

getBody(n) ==
  IF Has(n, "body")
  THEN IF IsArray(n.body) THEN [isArray |-> TRUE, items |-> n.body.items]
       ELSE [isArray |-> FALSE, items |-> <<n.body>>]
  ELSE IF Has(n, "declarations") THEN [isArray |-> TRUE, items |-> n.declarations.items]
  ELSE IF Has(n, "properties") THEN [isArray |-> TRUE, items |-> n.properties.items]
  ELSE [isArray |-> TRUE, items |-> StructuralChildren(n)]

\* currentNode === parentNode.body compares object identity; nodes are told
\* apart by their loc and type
getNextParent(currentNode, parentNode) ==
  IF parentNode # Null
     /\ ((isFunction(parentNode) /\ Has(parentNode, "body") /\ currentNode = parentNode.body)
         \/ (isScopeCreator(parentNode) /\ ~isScopeCreator(currentNode)))
  THEN parentNode
  ELSE currentNode

(***************************************************************************)
(* The scope graph.  typeGraph.scopes maps a scope key (the module's own   *)
(* key, or the key getScopeKey derives from a node's loc) to a Scope;      *)
(* typeGraph.infos is the store of VariableInfo objects, which scopes,     *)
(* declarations and CallMetas share by reference (an index).               *)
(***************************************************************************)
ModuleKey == -1
NoScope == -2
NoInfo == 0

Type(name) == [kind |-> "Type", name |-> name, sub |-> ""]
FunctionType == [kind |-> "FunctionType", name |-> "() => mixed", sub |-> ""]
GenericType(sub) == [kind |-> "GenericType", name |-> "<T>", sub |-> sub]
UNDEFINED_TYPE == "undefined"

Scope(type, parent, declaration) ==
  [type |-> type, parent |-> parent, declaration |-> declaration,
   hasThrowable |-> FALSE, throwable |-> <<>>, calls |-> <<>>, body |-> <<>>]

VariableInfo(type, parent, meta) ==
  [type |-> type, parent |-> parent, meta |-> meta, throwable |-> Null]

CallMeta(target, nargs, loc, targetName) ==
  [target |-> target, nargs |-> nargs, loc |-> loc, targetName |-> targetName]

\* new VariableInfo(...) followed by scope.body.set(name, it): Map.set puts
\* the new object under the name whether or not the name is taken
bodySet(g, scopeKey, name, info) ==
  [g EXCEPT !.scopes[scopeKey].body = With(@, name, Len(g.infos) + 1),
            !.infos = Append(@, info)]

\* typeGraph.body.set(key, scope)
scopeSet(g, key, scope) == [g EXCEPT !.scopes = With(@, key, scope)]

\* utils/globals and utils/operators: every operator label is a variable of
\* the module scope whose type is a function type
OperatorNames ==
  {"if", "while", "do-while", "for", "throw", "return", "=", "?:", ".", "new",
   "+", ">", "<", "++", "+=", "!"}

mixBaseOperators(g) ==
  LET names == OperatorNames
      RECURSIVE add(_, _)
      add(h, todo) ==
        IF todo = {} THEN h
        ELSE LET n == CHOOSE x \in todo : TRUE
             IN add(bodySet(h, ModuleKey, n, VariableInfo(FunctionType, ModuleKey, 0)),
                    todo \ {n})
  IN add(g, names)

\* new ModuleScope(), the type scope, the globals and the operators
SeededGraph ==
  mixBaseOperators([scopes |-> (ModuleKey :> Scope("module", NoScope, NoInfo)),
                    infos |-> <<>>, checkCalls |-> <<>>])

(***************************************************************************)
(* utils/utils: the lookups the two passes rely on.                        *)
(***************************************************************************)
getScopeKey(n) == n.loc
getDeclarationName(n) == n.id.name
getAnonymousKey(n) == "[[Anonymous]]"

getParentFromNode(currentNode, parentNode, g) ==
  IF parentNode = Null \/ getScopeKey(parentNode) \notin DOMAIN g.scopes
  THEN ModuleKey
  ELSE getScopeKey(parentNode)

RECURSIVE findVariableInfo(_, _, _)
\* the index of the VariableInfo, NoInfo when no scope of the chain has the name
findVariableInfo(name, scopeKey, g) ==
  IF name \in DOMAIN g.scopes[scopeKey].body THEN g.scopes[scopeKey].body[name]
  ELSE IF g.scopes[scopeKey].parent = NoScope THEN NoInfo
  ELSE findVariableInfo(name, g.scopes[scopeKey].parent, g)

RECURSIVE findNearestScopeByType(_, _, _)
findNearestScopeByType(type, scopeKey, g) ==
  IF g.scopes[scopeKey].type = type \/ g.scopes[scopeKey].parent = NoScope THEN scopeKey
  ELSE findNearestScopeByType(type, g.scopes[scopeKey].parent, g)

RECURSIVE findThrowableBlock(_, _)
findThrowableBlock(scopeKey, g) ==
  IF g.scopes[scopeKey].hasThrowable THEN scopeKey
  ELSE IF g.scopes[scopeKey].parent = NoScope THEN NoScope
  ELSE findThrowableBlock(g.scopes[scopeKey].parent, g)

\* an absent annotation gives the undefined sentinel
getTypeFromTypeAnnotation(id) ==
  IF id # Null /\ Has(id, "typeAnnotation") THEN id.typeAnnotation ELSE Type(UNDEFINED_TYPE)

\* the inference oracle: a function-like node has a function type, generic
\* when a parameter has no annotation; a literal has its primitive type
inferenceTypeForNode(n) ==
  CASE isFunction(n) ->
         IF \E k \in DOMAIN n.params.items : ~Has(n.params.items[k], "typeAnnotation")
         THEN GenericType("FunctionType") ELSE FunctionType
    [] n.type = "NumericLiteral" -> Type("number")
    [] n.type = "StringLiteral" -> Type("string")
    [] OTHER -> Type("mixed")

getInvocationType(fnType) == Type("mixed")
\* the error type of a scope: the union of what its throwable list holds
inferenceErrorType(g, scopeKey) ==
  [kind |-> "UnionType", name |-> "Error", sub |-> "",
   of |-> IF scopeKey \in DOMAIN g.scopes THEN g.scopes[scopeKey].throwable ELSE <<>>]

\* refines the signature of a generic function from the calls of its scope;
\* the model keeps of a function type its kind only, which the refinement
\* leaves as it is
inferenceFunctionTypeByScope(g, scopeKey) == g

isCallable(t) ==
  t.kind = "FunctionType" \/ (t.kind = "GenericType" /\ t.sub = "FunctionType")

(***************************************************************************)
(* Pass 2's reduction of a node to calls.  A result carries the graph, the *)
(* exception raised ("none" when the call returned) and the value: a       *)
(* VariableInfo (its index in ref) or a Type (ref = NoInfo).               *)
(***************************************************************************)
Ret(g, ref, type) == [g |-> g, exc |-> "none", ref |-> ref, type |-> type]
Throw(g, exc) == [g |-> g, exc |-> exc, ref |-> NoInfo, type |-> Type("never")]
Bind(r, F(_)) == IF r.exc # "none" THEN r ELSE F(r)

\* findVariableInfo as the passes use it: an unresolved name is a HegelError
lookup(name, scopeKey, g) ==
  LET i == findVariableInfo(name, scopeKey, g)
  IN IF i = NoInfo THEN Throw(g, "HegelError") ELSE Ret(g, i, g.infos[i].type)

addToThrowable(throwType, currentScope, g) ==
  LET throwableScope == findThrowableBlock(currentScope, g)
  IN IF throwableScope = NoScope THEN g
     ELSE IF currentScope # ModuleKey
     THEN [g EXCEPT !.scopes[throwableScope].throwable = Append(@, throwType)]
     ELSE g

\* the push without the test of lines 252-256
RecordUntested(g, currentScope, target, nargs, loc, targetName) ==
  LET callsScope == IF g.scopes[currentScope].type = "function" THEN currentScope
                    ELSE findNearestScopeByType("function", currentScope, g)
  IN Ret([g EXCEPT !.scopes[callsScope].calls =
            Append(@, CallMeta(target, nargs, loc, targetName))],
         NoInfo, Type("mixed"))

\* lines 248-264: the CallMeta is pushed only behind the test of the target
recordCall(g, currentScope, target, nargs, loc, targetName) ==
  LET callsScope == IF g.scopes[currentScope].type = "function" THEN currentScope
                    ELSE findNearestScopeByType("function", currentScope, g)
  IN IF target # NoInfo /\ isCallable(g.infos[target].type)
     THEN Ret([g EXCEPT !.scopes[callsScope].calls =
                 Append(@, CallMeta(target, nargs, loc, targetName))],
              NoInfo, getInvocationType(g.infos[target].type))
     ELSE Throw(g, "Error")

RECURSIVE addCallToTypeGraph(_, _, _)
RECURSIVE reduceArguments(_, _, _)

\* node.arguments.map(n => addCallToTypeGraph(n, typeGraph, currentScope))
reduceArguments(nodes, g, currentScope) ==
  IF nodes = <<>> THEN Ret(g, NoInfo, Type("mixed"))
  ELSE Bind(addCallToTypeGraph(Head(nodes), g, currentScope),
            LAMBDA a : reduceArguments(Tail(nodes), a.g, currentScope))

addCallToTypeGraph(node, g, currentScope) ==
  CASE node.type \in {"IfStatement", "WhileStatement", "DoWhileStatement"} ->
         LET name == CASE node.type = "IfStatement" -> "if"
                       [] node.type = "WhileStatement" -> "while"
                       [] OTHER -> "do-while"
         IN Bind(lookup(name, currentScope, g), LAMBDA t :
            Bind(addCallToTypeGraph(node.test, g, currentScope), LAMBDA a :
              recordCall(a.g, currentScope, t.ref, 1, node.loc, "")))
    [] node.type = "ForStatement" ->
         Bind(lookup("for", currentScope, g), LAMBDA t :
           IF ~Has(node, "test")
           THEN recordCall(g, currentScope, t.ref, 3, node.loc, "")
           ELSE IF getScopeKey(node.body) \notin DOMAIN g.scopes
           THEN Throw(g, "TypeError")
           ELSE Bind(addCallToTypeGraph(node.test, g, getScopeKey(node.body)), LAMBDA a :
                  recordCall(a.g, currentScope, t.ref, 3, node.loc, "")))
    [] node.type \in {"FunctionExpression", "ArrowFunctionExpression", "ClassDeclaration"} ->
         lookup(getAnonymousKey(node), currentScope, g)
    [] node.type = "Identifier" ->
         lookup(node.name, currentScope, g)
    [] node.type = "VariableDeclarator" ->
         Bind(lookup(node.id.name, currentScope, g), LAMBDA v :
           IF ~Has(node, "init") THEN v
           ELSE Bind(addCallToTypeGraph(node.init, g, currentScope), LAMBDA a :
                Bind(lookup("=", currentScope, a.g), LAMBDA t :
                  recordCall(a.g, currentScope, t.ref, 2, node.loc, "="))))
    [] node.type = "ExpressionStatement" ->
         addCallToTypeGraph(node.expression, g, currentScope)
    [] node.type = "ThrowStatement" ->
         Bind(addCallToTypeGraph(node.argument, g, currentScope), LAMBDA a :
         Bind(lookup("throw", currentScope, a.g), LAMBDA t :
           recordCall(addToThrowable(IF a.ref # NoInfo
                                     THEN [kind |-> "VariableInfo", ref |-> a.ref]
                                     ELSE a.type, currentScope, a.g),
                      currentScope, t.ref, 1, node.loc, "throw")))
    [] node.type \in {"ReturnStatement", "UnaryExpression", "UpdateExpression"} ->
         IF ~Has(node, "argument") THEN Throw(g, "TypeError")
         ELSE LET targetName == IF Has(node, "operator") THEN node.operator ELSE "return"
              IN Bind(addCallToTypeGraph(node.argument, g, currentScope), LAMBDA a :
                 Bind(lookup(targetName, currentScope, a.g), LAMBDA t :
                   recordCall(a.g, currentScope, t.ref, 1, node.loc, targetName)))
    [] node.type \in {"BinaryExpression", "LogicalExpression", "AssignmentExpression"} ->
         Bind(addCallToTypeGraph(node.left, g, currentScope), LAMBDA l :
         Bind(addCallToTypeGraph(node.right, l.g, currentScope), LAMBDA r :
         Bind(lookup(node.operator, currentScope, r.g), LAMBDA t :
           recordCall(r.g, currentScope, t.ref, 2, node.loc, node.operator))))
    [] node.type = "ConditionalExpression" ->
         Bind(addCallToTypeGraph(node.test, g, currentScope), LAMBDA c :
         Bind(addCallToTypeGraph(node.consequent, c.g, currentScope), LAMBDA l :
         Bind(addCallToTypeGraph(node.alternate, l.g, currentScope), LAMBDA r :
         Bind(lookup("?:", currentScope, r.g), LAMBDA t :
           recordCall(r.g, currentScope, t.ref, 3, node.loc, "?:")))))
    [] node.type = "CallExpression" ->
         Bind(reduceArguments(node.arguments.items, g, currentScope), LAMBDA a :
         Bind(IF node.callee.type = "Identifier"
              THEN lookup(node.callee.name, currentScope, a.g)
              ELSE addCallToTypeGraph(node.callee, a.g, currentScope), LAMBDA t :
           LET throwable == IF t.ref = NoInfo THEN Null ELSE t.g.infos[t.ref].throwable
               h == IF throwable # Null THEN addToThrowable(throwable, currentScope, t.g)
                    ELSE t.g
           IN recordCall(h, currentScope, t.ref, Len(node.arguments.items), node.loc, "")))
    [] OTHER -> Ret(g, NoInfo, inferenceTypeForNode(node))

(***************************************************************************)
(* Pass 1: fillModuleScope's handler and what it calls.                    *)
(***************************************************************************)
getScopeType(n) ==
  CASE n.type = "BlockStatement" -> "block"
    [] n.type \in {"FunctionDeclaration", "FunctionExpression", "ArrowFunctionExpression",
                   "ObjectMethod", "FunctionTypeAnnotation"} -> "function"
    [] n.type = "ObjectExpression" -> "object"
    [] n.type \in {"ClassDeclaration", "ClassExpression"} -> "class"
    [] OTHER -> "TypeError"  \* throw new TypeError("Never for getScopeType")

\* the node types the two handlers treat as function-like declarations
FunctionLike ==
  {"ObjectMethod", "FunctionExpression", "ArrowFunctionExpression",
   "ClassDeclaration", "FunctionDeclaration"}

getVariableInfoFromDelcaration(currentNode, parentNode, g) ==
  VariableInfo(getTypeFromTypeAnnotation(IF Has(currentNode, "id") THEN currentNode.id ELSE Null),
               getParentFromNode(currentNode, parentNode, g),
               currentNode.loc)

getScopeFromNode(currentNode, parentNode, g, declaration) ==
  Scope(getScopeType(currentNode), getParentFromNode(currentNode, parentNode, g), declaration)

\* lines 299-312: the new VariableInfo is set under the name in its parent scope
addVariableToGraph(currentNode, parentNode, g, customName) ==
  LET variableInfo == getVariableInfoFromDelcaration(currentNode, parentNode, g)
  IN bodySet(g, variableInfo.parent, customName, variableInfo)

RECURSIVE addParams(_, _, _)
addParams(params, scopeKey, g) ==
  IF params = <<>> THEN g
  ELSE addParams(Tail(params), scopeKey,
         bodySet(g, scopeKey, Head(params).name,
                 VariableInfo(IF Has(Head(params), "typeAnnotation")
                              THEN Head(params).typeAnnotation
                              ELSE [kind |-> "TypeVar", name |-> "T", sub |-> ""],
                              scopeKey, Head(params).loc)))

addFunctionScopeToTypeGraph(currentNode, parentNode, g, variableInfo) ==
  LET scope == [getScopeFromNode(currentNode, parentNode, g, variableInfo)
                  EXCEPT !.hasThrowable = TRUE]
      key == getScopeKey(currentNode)
      named == IF currentNode.type = "FunctionExpression" /\ Has(currentNode, "id")
               THEN [scope EXCEPT !.body = With(@, getDeclarationName(currentNode), variableInfo)]
               ELSE scope
  IN addParams(currentNode.params.items, key, scopeSet(g, key, named))

addFunctionToTypeGraph(currentNode, parentNode, g) ==
  LET name == IF Has(currentNode, "id") THEN getDeclarationName(currentNode)
              ELSE getAnonymousKey(currentNode)
      h == addVariableToGraph(currentNode, parentNode, g, name)
      variableInfo == Len(h.infos)
      typed == [h EXCEPT !.infos[variableInfo].type = inferenceTypeForNode(currentNode)]
  IN addFunctionScopeToTypeGraph(currentNode, parentNode, typed, variableInfo)

\* the handler returns undefined on every path: the result is the graph and
\* the exception raised
Done(g) == [g |-> g, exc |-> "none"]
Raise(g, exc) == [g |-> g, exc |-> exc]

fillModuleScope(currentNode, parentNode, g) ==
  CASE currentNode.type = "VariableDeclarator" ->
         Done(addVariableToGraph(currentNode, parentNode, g, getDeclarationName(currentNode)))
    [] currentNode.type \in FunctionLike ->
         Done(addFunctionToTypeGraph(currentNode, parentNode, g))
    [] currentNode.type \in {"BlockStatement", "ClassExpression"} ->
         IF currentNode.type = "BlockStatement" /\ parentNode # Null /\ isFunction(parentNode)
         THEN Done(g)
         ELSE IF getScopeKey(currentNode) \in DOMAIN g.scopes
         THEN Done(g)
         ELSE Done(scopeSet(g, getScopeKey(currentNode),
                            getScopeFromNode(currentNode, parentNode, g, NoInfo)))
    [] currentNode.type = "TryStatement" ->
         LET tryBlock == [getScopeFromNode(currentNode.block, parentNode, g, NoInfo)
                            EXCEPT !.hasThrowable = TRUE]
             a == scopeSet(g, getScopeKey(currentNode.block), tryBlock)
         IN IF ~Has(currentNode, "handler") THEN Done(a)
            ELSE LET b == scopeSet(a, getScopeKey(currentNode.handler.body),
                                   getScopeFromNode(currentNode.handler.body, parentNode, a, NoInfo))
                 IN IF ~Has(currentNode.handler, "param") THEN Done(b)
                    ELSE Done(addVariableToGraph(currentNode.handler.param,
                                currentNode.handler.body, b,
                                IF Has(currentNode.handler.param, "name")
                                THEN currentNode.handler.param.name ELSE "undefined"))
    [] OTHER -> Done(g)

(***************************************************************************)
(* Pass 2: afterFillierActions' handler.                                   *)
(***************************************************************************)
\* lines 508-511: variableInfo.type.name === UNDEFINED_TYPE ? newType : variableInfo.type
AssignAlways(oldType, newType) == newType
lateType(oldType, newType) == IF oldType.name = UNDEFINED_TYPE THEN newType ELSE oldType

\* checkCalls(scope, typeScope, errors): the external checker; the model keeps
\* which scopes it was run on
checkCalls(g, scopeKey) == [g EXCEPT !.checkCalls = Append(@, scopeKey)]

afterFillierActions(currentNode, parentNode, g) ==
  LET currentScope == getParentFromNode(currentNode, parentNode, g)
  IN CASE currentNode.type = "VariableDeclarator" ->
            LET variableInfo == findVariableInfo(currentNode.id.name, currentScope, g)
            IN IF variableInfo = NoInfo THEN Raise(g, "HegelError")
               ELSE LET r == addCallToTypeGraph(currentNode, g, currentScope)
                    IN IF r.exc # "none" THEN Raise(r.g, r.exc)
                       ELSE LET newType == IF r.ref # NoInfo THEN r.g.infos[r.ref].type
                                           ELSE r.type
                            IN Done([r.g EXCEPT !.infos[variableInfo].type =
                                       lateType(@, newType)])
       [] currentNode.type = "BlockStatement" ->
            IF ~Has(currentNode, "catchBlock") \/ ~Has(currentNode.catchBlock, "param")
            THEN Done(g)
            ELSE IF currentNode.catchBlock.param.type # "Identifier"
            THEN Raise(g, "Error")
            ELSE LET errorVariable ==
                       findVariableInfo(currentNode.catchBlock.param.name,
                         getParentFromNode(currentNode.catchBlock.param,
                                           currentNode.catchBlock.body, g), g)
                 IN IF errorVariable = NoInfo THEN Raise(g, "HegelError")
                    ELSE Done([g EXCEPT !.infos[errorVariable].type =
                                 inferenceErrorType(g, getScopeKey(currentNode))])
       [] currentNode.type \in {"CallExpression", "ReturnStatement", "ExpressionStatement",
                                "IfStatement", "WhileStatement", "DoWhileStatement",
                                "ForStatement", "ThrowStatement"} ->
            LET r == addCallToTypeGraph(currentNode, g, currentScope)
            IN Raise(r.g, r.exc)
       [] currentNode.type \in FunctionLike ->
            IF getScopeKey(currentNode) \notin DOMAIN g.scopes THEN Raise(g, "Error")
            ELSE LET functionScope == g.scopes[getScopeKey(currentNode)]
                     declaration == functionScope.declaration
                 IN IF declaration # NoInfo
                       /\ g.infos[declaration].type.kind = "GenericType"
                       /\ functionScope.type = "function"
                       /\ g.infos[declaration].type.sub = "FunctionType"
                    THEN Done([checkCalls(inferenceFunctionTypeByScope(g, getScopeKey(currentNode)),
                                          getScopeKey(currentNode))
                                 EXCEPT !.infos[declaration].throwable =
                                   IF Len(functionScope.throwable) # 0
                                   THEN inferenceErrorType(g, getScopeKey(currentNode))
                                   ELSE Null])
                    ELSE Done(g)
       [] OTHER -> Done(g)

(***************************************************************************)
(* Programs.  The walker is run on each of them; locs are unique in a      *)
(* program.                                                                *)
(***************************************************************************)
\* (nothing)
ProgEmpty == Program(<<>>)

\* function f(a) { return a; } f(42);
ProgCall ==
  Program(<<FunctionDeclaration(Identifier("f", 1), <<Identifier("a", 2)>>,
              BlockStatement(<<ReturnStatement(Identifier("a", 4), 5)>>, 3), 6),
            ExpressionStatement(
              CallExpression(Identifier("f", 7), <<NumericLiteral(8)>>, 9), 10)>>)

\* let x = 1, y; if (x > 0) y = 1;
ProgIf ==
  Program(<<VariableDeclaration(
              <<VariableDeclarator(Identifier("x", 1), NumericLiteral(2), 3),
                VariableDeclaratorNoInit(Identifier("y", 4), 5)>>, 6),
            IfStatement(BinaryExpression(">", Identifier("x", 7), NumericLiteral(8), 9),
              ExpressionStatement(
                AssignmentExpression("=", Identifier("y", 10), NumericLiteral(11), 12), 13),
              14)>>)

\* try { throw "e"; } catch (e) { e; }
ProgTry ==
  Program(<<TryStatement(
              BlockStatement(<<ThrowStatement(StringLiteral(1), 2)>>, 3),
              CatchClause(Identifier("e", 4),
                BlockStatement(<<ExpressionStatement(Identifier("e", 5), 6)>>, 7), 8),
              9)>>)

\* try { } catch ({ message }) { }
ProgCatchPattern ==
  Program(<<TryStatement(
              BlockStatement(<<>>, 1),
              CatchClause(ObjectPattern(2), BlockStatement(<<>>, 3), 4),
              5)>>)

\* let x = 1; x();
ProgNotCallable ==
  Program(<<VariableDeclaration(
              <<VariableDeclarator(Identifier("x", 1), NumericLiteral(2), 3)>>, 4),
            ExpressionStatement(CallExpression(Identifier("x", 5), <<>>, 6), 7)>>)

\* let x = 1; let x = "s";
ProgRedeclare ==
  Program(<<VariableDeclaration(
              <<VariableDeclarator(Identifier("x", 1), NumericLiteral(2), 3)>>, 4),
            VariableDeclaration(
              <<VariableDeclarator(Identifier("x", 5), StringLiteral(6), 7)>>, 8)>>)

\* let s: string = 1;
ProgAnnotated ==
  Program(<<VariableDeclaration(
              <<VariableDeclarator(
                  TypedIdentifier("s", [kind |-> "Type", name |-> "string", sub |-> ""], 1),
                  NumericLiteral(2), 3)>>, 4)>>)

\* function g(a: number) { throw "e"; } g(1);
ProgThrower ==
  Program(<<FunctionDeclaration(Identifier("g", 1),
              <<TypedIdentifier("a", [kind |-> "Type", name |-> "number", sub |-> ""], 2)>>,
              BlockStatement(<<ThrowStatement(StringLiteral(4), 5)>>, 3), 6),
            ExpressionStatement(
              CallExpression(Identifier("g", 7), <<NumericLiteral(8)>>, 9), 10)>>)

\* x; y;
ProgTwo ==
  Program(<<ExpressionStatement(Identifier("x", 1), 2),
            ExpressionStatement(Identifier("y", 3), 4)>>)

\* if (x) y; z;
ProgBranch ==
  Program(<<IfStatement(Identifier("x", 1), ExpressionStatement(Identifier("y", 2), 3), 4),
            ExpressionStatement(Identifier("z", 5), 6)>>)

Programs ==
  <<ProgEmpty, ProgCall, ProgIf, ProgTry, ProgCatchPattern, ProgNotCallable,
    ProgRedeclare, ProgTwo, ProgBranch>>

\* the programs walked with arbitrary handlers
AnyPrograms == <<ProgTwo, ProgBranch, ProgCall>>

(***************************************************************************)
(* traverseTree as a state machine: one activation record per call.        *)
(*   pc = "pre"     about to normalise the node and call pre               *)
(*        "middle"  in the first loop, about to call middle(body[i])       *)
(*        "recurse" in the second loop, about to call traverseTree(body[i])*)
(*        "single"  about to call traverseTree(body) of a body that is     *)
(*                  one node                                               *)
(*        "post"    about to call post                                     *)
(* While a call of a child is running, the caller's record keeps its pc    *)
(* and its i below the child's record.                                     *)
(***************************************************************************)
NoError == [kind |-> "none", msg |-> "", loc |-> -1]
Exception(kind, msg, loc) == [kind |-> kind, msg |-> msg, loc |-> loc]

Frame(path, node, parentNode) ==
  [path |-> path, node |-> node, parent |-> parentNode, pc |-> "pre", i |-> 0,
   body |-> <<>>, isArray |-> FALSE, nextParent |-> Null]

Top == stack[Len(stack)]
Pop(st) == SubSeq(st, 1, Len(st) - 1)
SetTop(st, f) == [st EXCEPT ![Len(st)] = f]
\* ans: what the handler answered ("true", "false", "ok", "raise"), or what the
\* catch did with the exception that reached it
Event(h, path, ans, loc) == [h |-> h, path |-> path, ans |-> ans, loc |-> loc]
Answer(a) == IF a.exc # NoError THEN "raise" ELSE IF a.ret THEN "true" ELSE "false"

\* line 229: if (!shouldContinueTraversing) return
PruneAlways(a) == FALSE
shouldContinueTraversing(a) == a.ret

\* lines 240-243: the second loop starts when the first has called middle on
\* every child
StartRecursionAtOnce(f) == [f EXCEPT !.pc = "recurse"]
afterMiddle(f) ==
  IF f.i + 1 < Len(f.body) THEN [f EXCEPT !.i = f.i + 1]
  ELSE [f EXCEPT !.i = 0, !.pc = "recurse"]

\* line 253: the signal of a child that is not the last one is reported
ReportUpToLast(i, body) == i < Len(body)
isNotLastChild(i, body) == i < Len(body) - 1

\* line 254: new HegelError("Unreachable code after this line", e.loc)
unreachableDiagnostic(e) ==
  [kind |-> "HegelError", msg |-> "Unreachable code after this line", loc |-> e.loc]

\* line 582: e instanceof HegelError
EveryErrorIsHegel(e) == TRUE
isHegelError(e) == e.kind = "HegelError"

\* a call of traverseTree returns: its record goes, and its caller moves on
\* (i++ in the second loop, or to the post call after a single body)
Return(st) ==
  LET rest == Pop(st)
  IN IF rest = <<>> THEN rest
     ELSE LET c == rest[Len(rest)]
          IN IF c.pc = "single" THEN SetTop(rest, [c EXCEPT !.pc = "post"])
             ELSE IF c.i + 1 < Len(c.body) THEN SetTop(rest, [c EXCEPT !.i = c.i + 1])
             ELSE SetTop(rest, [c EXCEPT !.i = c.i + 1, !.pc = "post"])

\* what a handler of the "any" wiring may answer besides going on
Deviations(kinds, loc) ==
  IF signals < MaxSignals
  THEN {[ret |-> FALSE, exc |-> IF k = "none" THEN NoError ELSE Exception(k, "", loc),
         g |-> typeGraph, cost |-> 1] : k \in kinds}
  ELSE {}

\* pre(currentNode, parentNode, ...): fillModuleScope's handler in the build
PreAnswers(currentNode, parentNode) ==
  IF handlers = "build"
  THEN LET r == fillModuleScope(currentNode, parentNode, typeGraph)
       IN {[ret |-> FALSE,
            exc |-> IF r.exc = "none" THEN NoError ELSE Exception(r.exc, "", currentNode.loc),
            g |-> r.g, cost |-> 0]}
  ELSE {[ret |-> TRUE, exc |-> NoError, g |-> typeGraph, cost |-> 0]}
       \cup Deviations({"none", "UnreachableError", "HegelError", "Error"}, currentNode.loc)

\* middle(body[i], nextParent, ...): afterFillierActions' handler in the build
MiddleAnswers(child, nextParent) ==
  IF handlers = "build"
  THEN LET r == afterFillierActions(child, nextParent, typeGraph)
       IN {[ret |-> FALSE,
            exc |-> IF r.exc = "none" THEN NoError ELSE Exception(r.exc, "", child.loc),
            g |-> r.g, cost |-> 0]}
  ELSE {[ret |-> FALSE, exc |-> NoError, g |-> typeGraph, cost |-> 0]}
       \cup Deviations({"UnreachableError", "HegelError", "Error"}, child.loc)

\* post(currentNode, parentNode, ...): createModuleScope passes no post, and
\* calling undefined is a TypeError
PostAnswers(currentNode, parentNode) ==
  IF handlers = "build"
  THEN {[ret |-> FALSE, exc |-> Exception("TypeError", "post is not a function", currentNode.loc),
         g |-> typeGraph, cost |-> 0]}
  ELSE {[ret |-> FALSE, exc |-> NoError, g |-> typeGraph, cost |-> 0]}
       \cup Deviations({"UnreachableError", "HegelError", "Error"}, currentNode.loc)

Walking == pc = "walk" /\ stack # <<>> /\ raised = NoError

\* lines 227-238: normalise, call pre, stop on a falsy answer, else find the
\* children and the parent they are given
WalkPre ==
  /\ Walking
  /\ Top.pc = "pre"
  /\ LET currentNode == getCurrentNode(Top.node)
     IN IF currentNode = Null
        THEN /\ raised' = Exception("TypeError", "", Top.node.loc)
             /\ UNCHANGED <<stack, trace, signals, typeGraph>>
        ELSE \E a \in PreAnswers(currentNode, Top.parent) :
               /\ trace' = Append(trace, Event("pre", Top.path, Answer(a), currentNode.loc))
               /\ signals' = signals + a.cost
               /\ typeGraph' = a.g
               /\ raised' = a.exc
               /\ stack' =
                    IF a.exc # NoError THEN stack
                    ELSE IF ~shouldContinueTraversing(a) THEN Return(stack)
                    ELSE LET body == getBody(currentNode)
                         IN SetTop(stack,
                              [Top EXCEPT !.node = currentNode,
                                          !.body = body.items,
                                          !.isArray = body.isArray,
                                          !.nextParent = getNextParent(currentNode, Top.parent),
                                          !.pc = IF ~body.isArray THEN "single"
                                                 ELSE IF body.items = <<>> THEN "post"
                                                 ELSE "middle"])
  /\ UNCHANGED <<handlers, ast, pc, errors>>

\* lines 240-242: the first loop, one call of middle
WalkMiddle ==
  /\ Walking
  /\ Top.pc = "middle"
  /\ \E a \in MiddleAnswers(Top.body[Top.i + 1], Top.nextParent) :
       /\ trace' = Append(trace, Event("middle", Append(Top.path, Top.i), Answer(a),
                                       Top.body[Top.i + 1].loc))
       /\ signals' = signals + a.cost
       /\ typeGraph' = a.g
       /\ raised' = a.exc
       /\ stack' =
            IF a.exc # NoError THEN stack ELSE SetTop(stack, afterMiddle(Top))
  /\ UNCHANGED <<handlers, ast, pc, errors>>

\* lines 243-248 and 258: the recursive call on body[i], or on the single body
WalkRecurse ==
  /\ Walking
  /\ Top.pc \in {"recurse", "single"}
  /\ stack' = Append(stack, Frame(Append(Top.path, Top.i), Top.body[Top.i + 1], Top.nextParent))
  /\ UNCHANGED <<handlers, ast, pc, raised, trace, signals, errors, typeGraph>>

\* line 260: the post call, after which traverseTree returns
WalkPost ==
  /\ Walking
  /\ Top.pc = "post"
  /\ \E a \in PostAnswers(Top.node, Top.parent) :
       /\ trace' = Append(trace, Event("post", Top.path, Answer(a), Top.node.loc))
       /\ signals' = signals + a.cost
       /\ typeGraph' = a.g
       /\ raised' = a.exc
       /\ stack' = IF a.exc # NoError THEN stack ELSE Return(stack)
  /\ UNCHANGED <<handlers, ast, pc, errors>>

\* lines 249-256: an exception reaches the try around the two loops
WalkCatch ==
  /\ pc = "walk" /\ stack # <<>> /\ raised # NoError
  /\ Top.pc \in {"middle", "recurse"}
  /\ IF raised.kind # "UnreachableError"
     THEN /\ stack' = Pop(stack)
          /\ UNCHANGED <<raised, trace>>
     ELSE IF isNotLastChild(Top.i, Top.body)
     THEN /\ stack' = Pop(stack)
          /\ raised' = unreachableDiagnostic(raised)
          /\ trace' = Append(trace, Event("catch", Append(Top.path, Top.i), "reported", raised.loc))
     ELSE /\ stack' = SetTop(stack, [Top EXCEPT !.pc = "post"])
          /\ raised' = NoError
          /\ trace' = Append(trace, Event("catch", Append(Top.path, Top.i), "absorbed", raised.loc))
  /\ UNCHANGED <<handlers, ast, pc, signals, errors, typeGraph>>

\* an exception raised outside the try (by pre, by post, by the call on a
\* single body) leaves traverseTree
WalkPropagate ==
  /\ pc = "walk" /\ stack # <<>> /\ raised # NoError
  /\ Top.pc \in {"pre", "single", "post"}
  /\ stack' = Pop(stack)
  /\ UNCHANGED <<handlers, ast, pc, raised, trace, signals, errors, typeGraph>>

(***************************************************************************)
(* createModuleScope                                                       *)
(***************************************************************************)
EmptyGraph == [scopes |-> <<>>, infos |-> <<>>, checkCalls |-> <<>>]

\* lines 569-580: the module scope is made and seeded, traverseTree is called
Start ==
  /\ pc = "start"
  /\ pc' = "walk"
  /\ typeGraph' = SeededGraph
  /\ stack' = <<Frame(<<>>, ast, Null)>>
  /\ UNCHANGED <<handlers, ast, raised, trace, signals, errors>>

\* lines 581-586: a HegelError becomes a diagnostic, anything else goes on up
Catch ==
  /\ pc = "walk" /\ stack = <<>> /\ raised # NoError
  /\ IF isHegelError(raised)
     THEN /\ errors' = Append(errors, [msg |-> raised.msg, loc |-> raised.loc])
          /\ raised' = NoError
          /\ pc' = "caught"
     ELSE /\ pc' = "thrown"
          /\ UNCHANGED <<errors, raised>>
  /\ UNCHANGED <<handlers, ast, stack, trace, signals, typeGraph>>

\* lines 587-588: the check of the whole module, and the result
Finish ==
  /\ pc \in {"walk", "caught"} /\ stack = <<>> /\ raised = NoError
  /\ typeGraph' = checkCalls(typeGraph, ModuleKey)
  /\ pc' = "returned"
  /\ UNCHANGED <<handlers, ast, stack, raised, trace, signals, errors>>

Init ==
  /\ handlers \in {"build", "any"}
  /\ ast \in IF handlers = "build" THEN {Programs[k] : k \in DOMAIN Programs}
             ELSE {AnyPrograms[k] : k \in DOMAIN AnyPrograms}
  /\ pc = "start"
  /\ stack = <<>>
  /\ raised = NoError
  /\ trace = <<>>
  /\ signals = 0
  /\ errors = <<>>
  /\ typeGraph = EmptyGraph

Next ==
  \/ Start
  \/ WalkPre
  \/ WalkMiddle
  \/ WalkRecurse
  \/ WalkPost
  \/ WalkCatch
  \/ WalkPropagate
  \/ Catch
  \/ Finish

Spec == Init /\ [][Next]_vars

(***************************************************************************)
(* The two handlers on their own.  A step applies one handler to a node of *)
(* the program with the arguments traverseTree gives it there: pre gets    *)
(* the normalised node and the parent handed down to it, middle gets the   *)
(* child as it stands in its parent's array and the same parent.  This is  *)
(* how the handlers behave on the scope graphs that earlier applications   *)
(* leave, whatever the order in which a walk meets the nodes.              *)
(***************************************************************************)
MaxApplications == 4

UnitPrograms ==
  <<ProgCall, ProgIf, ProgTry, ProgCatchPattern, ProgNotCallable, ProgRedeclare,
    ProgAnnotated, ProgThrower>>

RECURSIVE rawAt(_, _)
\* body[i] along the path, each array taken from the normalised node
rawAt(n, p) ==
  IF p = <<>> THEN n
  ELSE rawAt(getBody(getCurrentNode(n)).items[Head(p) + 1], Tail(p))

RECURSIVE parentAt(_, _, _)
\* the parentNode argument of the call of traverseTree on the node at p
parentAt(n, parentNode, p) ==
  IF p = <<>> THEN parentNode
  ELSE LET c == getCurrentNode(n)
       IN parentAt(getBody(c).items[Head(p) + 1], getNextParent(c, parentNode), Tail(p))

RECURSIVE pathsOf(_, _)
pathsOf(n, p) ==
  LET items == getBody(getCurrentNode(n)).items
  IN {p} \cup UNION {pathsOf(items[k], Append(p, k - 1)) : k \in DOMAIN items}

\* the paths of the children that stand in an array: those middle is called on
MiddlePaths(n) ==
  {p \in pathsOf(n, <<>>) :
     p # <<>> /\ getBody(getCurrentNode(rawAt(n, SubSeq(p, 1, Len(p) - 1)))).isArray}

Applied(exc, loc) == IF exc = "none" THEN NoError ELSE Exception(exc, "", loc)

\* pre(currentNode, parentNode) with fillModuleScope's handler
ApplyPass1 ==
  /\ pc = "unit"
  /\ signals < MaxApplications
  /\ \E p \in pathsOf(ast, <<>>) :
       LET currentNode == getCurrentNode(rawAt(ast, p))
           r == fillModuleScope(currentNode, parentAt(ast, Null, p), typeGraph)
       IN /\ typeGraph' = r.g
          /\ raised' = Applied(r.exc, currentNode.loc)
          /\ trace' = <<Event("pre", p, IF r.exc = "none" THEN "false" ELSE "raise",
                              currentNode.loc)>>
  /\ signals' = signals + 1
  /\ UNCHANGED <<handlers, ast, pc, stack, errors>>

\* middle(body[i], nextParent) with afterFillierActions' handler
ApplyPass2 ==
  /\ pc = "unit"
  /\ signals < MaxApplications
  /\ \E p \in MiddlePaths(ast) :
       LET child == rawAt(ast, p)
           r == afterFillierActions(child, parentAt(ast, Null, p), typeGraph)
       IN /\ typeGraph' = r.g
          /\ raised' = Applied(r.exc, child.loc)
          /\ trace' = <<Event("middle", p, IF r.exc = "none" THEN "false" ELSE "raise",
                              child.loc)>>
  /\ signals' = signals + 1
  /\ UNCHANGED <<handlers, ast, pc, stack, errors>>

InitPass ==
  /\ handlers = "unit"
  /\ ast \in {UnitPrograms[k] : k \in DOMAIN UnitPrograms}
  /\ pc = "unit"
  /\ stack = <<>>
  /\ raised = NoError
  /\ trace = <<>>
  /\ signals = 0
  /\ errors = <<>>
  /\ typeGraph = SeededGraph

NextPass ==
  \/ ApplyPass1
  \/ ApplyPass2

SpecPass == InitPass /\ [][NextPass]_vars

(***************************************************************************)
(* The rewrite pipeline on its own.  A step applies getCurrentNode to the  *)
(* node at hand and keeps the result as the node: the rewrites of a loop   *)
(* and of an arrow function change the node they are given, so a node that *)
(* is normalised again is normalised from its previous output.             *)
(***************************************************************************)
MaxNormalisations == 3

NormBodies ==
  {EmptyStatement(20),
   ExpressionStatement(Identifier("y", 21), 22),
   BlockStatement(<<>>, 23),
   BlockStatement(<<ExpressionStatement(Identifier("y", 21), 22)>>, 23)}

NormDeclaration ==
  VariableDeclaration(<<VariableDeclarator(Identifier("i", 1), NumericLiteral(2), 3)>>, 4)

NormTest == BinaryExpression("<", Identifier("i", 5), NumericLiteral(6), 7)

\* for (let i = 0; i < 1; ) B    for (; i < 1; ) B    for (let i in o) B
\* for (let i of o) B    while (i < 1) B    if (i < 1) B    if (i < 1) B else B'
\* (a) => y    (a) => { }    try { } catch (e) { }    export function f() { }    y;
NormInputs ==
  {ForStatement(NormDeclaration, NormTest, b, 30) : b \in NormBodies}
  \cup {ForNoInitStatement(NormTest, b, 30) : b \in NormBodies}
  \cup {ForInStatement(NormDeclaration, Identifier("o", 8), b, 30) : b \in NormBodies}
  \cup {ForOfStatement(NormDeclaration, Identifier("o", 8), b, 30) : b \in NormBodies}
  \cup {WhileStatement(NormTest, b, 30) : b \in NormBodies}
  \cup {IfStatement(NormTest, b, 30) : b \in NormBodies}
  \cup {IfElseStatement(NormTest, b, c, 30) : b \in NormBodies, c \in NormBodies}
  \cup {ArrowFunctionExpression(<<Identifier("a", 9)>>, Identifier("y", 21), 30),
        ArrowFunctionExpression(<<Identifier("a", 9)>>, BlockStatement(<<>>, 23), 30),
        TryStatement(BlockStatement(<<>>, 23),
                     CatchClause(Identifier("e", 10), BlockStatement(<<>>, 24), 25), 30),
        ExportNamedDeclaration(
          FunctionDeclaration(Identifier("f", 11), <<>>, BlockStatement(<<>>, 23), 26), 30),
        ExpressionStatement(Identifier("y", 21), 22)}

\* const currentNode = getCurrentNode(node, parentNode, meta)
Normalise ==
  /\ pc = "norm"
  /\ signals < MaxNormalisations
  /\ LET currentNode == getCurrentNode(ast)
     IN IF currentNode = Null
        THEN /\ raised' = Exception("TypeError", "", ast.loc)
             /\ pc' = "thrown"
             /\ ast' = ast
        ELSE /\ ast' = currentNode
             /\ UNCHANGED <<raised, pc>>
  /\ signals' = signals + 1
  /\ UNCHANGED <<handlers, stack, trace, errors, typeGraph>>

InitNorm ==
  /\ handlers = "norm"
  /\ ast \in NormInputs
  /\ pc = "norm"
  /\ stack = <<>>
  /\ raised = NoError
  /\ trace = <<>>
  /\ signals = 0
  /\ errors = <<>>
  /\ typeGraph = EmptyGraph

NextNorm == Normalise

SpecNorm == InitNorm /\ [][NextNorm]_vars

(***************************************************************************)
(* What the properties below speak of: the nodes of the program by their   *)
(* path, and the handler calls of the trace.                               *)
(***************************************************************************)
IsPrefix(p, q) == Len(p) <= Len(q) /\ SubSeq(q, 1, Len(p)) = p
Below(q, p) == Len(q) > Len(p) /\ IsPrefix(p, q)
ParentPath(q) == SubSeq(q, 1, Len(q) - 1)
IndexOf(q) == q[Len(q)]

nodeAt(n, p) == getCurrentNode(rawAt(n, p))

ChildCount(p) == Len(getBody(nodeAt(ast, p)).items)
ChildrenAreSequence(p) == getBody(nodeAt(ast, p)).isArray
Called(h, p) == \E k \in DOMAIN trace : trace[k].h = h /\ trace[k].path = p
OnStack(p) == \E k \in DOMAIN stack : stack[k].path = p
UnreachableDiagnostics ==
  {k \in DOMAIN errors : errors[k].msg = "Unreachable code after this line"}
ModuleChecks == {k \in DOMAIN typeGraph.checkCalls : typeGraph.checkCalls[k] = ModuleKey}

(***************************************************************************)
(* C1                                                                      *)
(***************************************************************************)
\* C1 (as claimed): when createModuleScope returns, Pass 1 (the pre handler
\* of the build) has been applied to every node of the tree, and every call
\* of Pass 2 (the middle handler of the build) comes after all of them.
C1_TwoPasses ==
  handlers = "build" =>
    /\ pc = "returned" => \A p \in pathsOf(ast, <<>>) : Called("pre", p)
    /\ \A k \in DOMAIN trace : trace[k].h = "middle" =>
         \A p \in pathsOf(ast, <<>>) :
           \E j \in 1..(k - 1) : trace[j].h = "pre" /\ trace[j].path = p

(***************************************************************************)
(* C2                                                                      *)
(***************************************************************************)
\* a pre call that answered falsy: nothing is called below its node, and
\* post is not called on the node
PrunedBelow(k) ==
  /\ ~Called("post", trace[k].path)
  /\ \A j \in DOMAIN trace : ~Below(trace[j].path, trace[k].path)

AllChildrenTraversed(p) ==
  \A c \in 0..(ChildCount(p) - 1) : Called("pre", Append(p, c))

RaisedBelow(p) ==
  \E j \in DOMAIN trace : Below(trace[j].path, p) /\ trace[j].ans = "raise"

C3_Order ==
  \A k \in DOMAIN trace :
    LET e == trace[k]
    IN /\ (e.h = "pre" /\ e.path # <<>> /\ ChildrenAreSequence(ParentPath(e.path))) =>
            \A c \in 0..(ChildCount(ParentPath(e.path)) - 1) :
              \E j \in 1..(k - 1) :
                trace[j].h = "middle" /\ trace[j].path = Append(ParentPath(e.path), c)
       /\ \A j \in 1..(k - 1) :
            (trace[j].h = e.h /\ e.h \in {"pre", "middle"}
             /\ e.path # <<>> /\ trace[j].path # <<>>
             /\ ParentPath(trace[j].path) = ParentPath(e.path)) =>
              IndexOf(trace[j].path) < IndexOf(e.path)
       /\ e.h = "post" =>
            \A j \in DOMAIN trace : Below(trace[j].path, e.path) => j < k
       /\ e.path # <<>> =>
            \E j \in 1..(k - 1) : trace[j].h = "pre" /\ trace[j].path = ParentPath(e.path)

\* the whole of ProgCall walked: the root has two children, both traversed,
\* and post has been called on it
C3_Witness ==
  /\ Called("post", <<>>)
  /\ ChildCount(<<>>) > 1
  /\ AllChildrenTraversed(<<>>)

(***************************************************************************)
(* C4                                                                      *)
(***************************************************************************)
\* C4: an unreachable signal that reaches the loop over a child sequence at
\* an index that is not the last is reported: a HegelError with the message
\* and the signal's loc leaves the walker, no sibling after the child is
\* visited, and the build ends with this one unreachable diagnostic.  At the
\* last index it is absorbed: no diagnostic carries its loc and the next
\* handler call is post on the parent.
C4_Unreachable ==
  \A k \in DOMAIN trace : trace[k].h = "catch" =>
    LET e == trace[k]
        parent == ParentPath(e.path)
    IN IF IndexOf(e.path) < ChildCount(parent) - 1
       THEN /\ e.ans = "reported"
            /\ k = Len(trace)
            /\ \A j \in DOMAIN trace :
                 (trace[j].h = "pre" /\ trace[j].path # <<>>
                  /\ ParentPath(trace[j].path) = parent) =>
                   IndexOf(trace[j].path) <= IndexOf(e.path)
            /\ pc = "walk" =>
                 raised = [kind |-> "HegelError",
                           msg |-> "Unreachable code after this line", loc |-> e.loc]
            /\ pc # "thrown"
            /\ pc # "walk" =>
                 /\ Cardinality(UnreachableDiagnostics) = 1
                 /\ \A d \in UnreachableDiagnostics : errors[d].loc = e.loc
       ELSE /\ e.ans = "absorbed"
            /\ \A d \in UnreachableDiagnostics : errors[d].loc # e.loc
            /\ k < Len(trace) => trace[k + 1].h = "post" /\ trace[k + 1].path = parent
            /\ k = Len(trace) =>
                 /\ stack # <<>> /\ Top.path = parent /\ Top.pc = "post"
                 /\ raised = NoError

\* a build that absorbed one signal at a last child, ran the parent's post,
\* reported another signal and returned
C4_Witness ==
  /\ pc = "returned"
  /\ \E k \in DOMAIN trace :
       /\ trace[k].h = "catch" /\ trace[k].ans = "absorbed"
       /\ Called("post", ParentPath(trace[k].path))
  /\ \E k \in DOMAIN trace : trace[k].h = "catch" /\ trace[k].ans = "reported"
  /\ Cardinality(UnreachableDiagnostics) = 1

(***************************************************************************)
(* C5                                                                      *)
(***************************************************************************)
\* C5: an exception that leaves the traversal is handled by its kind: a
\* HegelError is appended to the diagnostics, and the only step after that
\* is the check of the whole module and the return of the result; any other
\* exception stays raised, nothing is appended, and createModuleScope takes
\* no further step (no check, no result).
C5_HandledByKind ==
  [][/\ (pc = "walk" /\ stack = <<>> /\ raised # NoError) =>
          IF raised.kind = "HegelError"
          THEN /\ errors' = Append(errors, [msg |-> raised.msg, loc |-> raised.loc])
               /\ pc' = "caught"
               /\ raised' = NoError
          ELSE /\ pc' = "thrown"
               /\ raised' = raised
               /\ errors' = errors
               /\ typeGraph' = typeGraph
     /\ pc = "caught" =>
          /\ pc' = "returned"
          /\ errors' = errors
          /\ typeGraph'.checkCalls = Append(typeGraph.checkCalls, ModuleKey)
     /\ pc # "thrown"
    ]_vars

\* a build whose traversal raised a HegelError and that returned its result
\* with the diagnostic, after the check of the module
C5_Witness ==
  /\ pc = "returned"
  /\ Len(errors) = 1
  /\ Cardinality(ModuleChecks) = 1

(***************************************************************************)
(* What the properties of the scope graph speak of.                        *)
(***************************************************************************)
CallsOf(S) == IF S \in DOMAIN typeGraph.scopes THEN typeGraph.scopes[S].calls ELSE <<>>
AllCallMetas ==
  UNION {{typeGraph.scopes[S].calls[k] : k \in DOMAIN typeGraph.scopes[S].calls} :
           S \in DOMAIN typeGraph.scopes}
CallableTarget(c) == c.target # NoInfo /\ isCallable(typeGraph.infos[c.target].type)
AppliedTo(h, p) == trace # <<>> /\ trace[Len(trace)].h = h /\ trace[Len(trace)].path = p

\* a call of a name that resolves in the module scope to something whose type
\* is no function type
NotCallableCall(n) ==
  /\ n.type = "CallExpression"
  /\ n.callee.type = "Identifier"
  /\ findVariableInfo(n.callee.name, ModuleKey, typeGraph) # NoInfo
  /\ ~isCallable(typeGraph.infos[findVariableInfo(n.callee.name, ModuleKey, typeGraph)].type)

\* the try block of a try statement whose catch parameter is a pattern
PatternCatchBlock(n) ==
  /\ n.type = "BlockStatement"
  /\ Has(n, "catchBlock")
  /\ Has(n.catchBlock, "param")
  /\ n.catchBlock.param.type # "Identifier"

(***************************************************************************)
(* C6                                                                      *)
(***************************************************************************)
\* C6 (as claimed): when Pass 2 meets a call whose target resolves to a type
\* that is not callable, or the block of a try whose catch parameter is not
\* an identifier, what it raises is a HegelError, the one kind of exception
\* that createModuleScope turns into a diagnostic and returns with.
C6_ShapeErrorsAreDiagnostics ==
  \A p \in MiddlePaths(ast) :
    (handlers = "unit" /\ AppliedTo("middle", p)
     /\ (NotCallableCall(rawAt(ast, p)) \/ PatternCatchBlock(rawAt(ast, p)))) =>
      isHegelError(raised)

(***************************************************************************)
(* C7                                                                      *)
(***************************************************************************)
\* the node declares name in scope S, where another declaration has
\* registered the name
Redeclares(node, parentNode, S, name) ==
  /\ node.type = "VariableDeclarator"
  /\ getDeclarationName(node) = name
  /\ getParentFromNode(node, parentNode, typeGraph) = S
  /\ name \in DOMAIN typeGraph.scopes[S].body
  /\ typeGraph.infos[typeGraph.scopes[S].body[name]].meta # node.loc

\* C7 (as claimed): when Pass 1 registers a second declaration of a name in a
\* scope that has the name, the first VariableInfo stays under the name and a
\* diagnostic (a HegelError) is produced.
C7_RedeclarationKeepsFirst ==
  [][\A p \in pathsOf(ast, <<>>) :
       \A S \in DOMAIN typeGraph.scopes :
         \A name \in DOMAIN typeGraph.scopes[S].body :
           (handlers = "unit" /\ AppliedTo("pre", p)' /\ signals' = signals + 1
            /\ Redeclares(nodeAt(ast, p), parentAt(ast, Null, p), S, name)) =>
             /\ typeGraph'.scopes[S].body[name] = typeGraph.scopes[S].body[name]
             /\ isHegelError(raised')
    ]_vars

CallSiteTypes ==
  {"CallExpression", "ReturnStatement", "ThrowStatement", "UnaryExpression",
   "UpdateExpression", "BinaryExpression", "LogicalExpression", "AssignmentExpression",
   "ConditionalExpression", "IfStatement", "WhileStatement", "DoWhileStatement",
   "ForStatement"}

RECURSIVE enclosingFunction(_, _, _)
\* the key of the scope of the innermost function around the node at p
enclosingFunction(n, p, found) ==
  LET c == getCurrentNode(n)
      here == IF c.type \in FunctionLike THEN getScopeKey(c) ELSE found
  IN IF p = <<>> THEN found
     ELSE enclosingFunction(getBody(c).items[Head(p) + 1], Tail(p), here)

\* C9 (as claimed): when createModuleScope returns, every call site of the
\* program is recorded as exactly one CallMeta, in the calls list of the
\* nearest function scope around it, or of the module scope.
C9_EveryCallSiteOnce ==
  (handlers = "build" /\ pc = "returned") =>
    \A p \in pathsOf(ast, <<>>) :
      nodeAt(ast, p).type \in CallSiteTypes =>
        /\ Cardinality({c \in AllCallMetas : c.loc = nodeAt(ast, p).loc}) = 1
        /\ \E k \in DOMAIN CallsOf(enclosingFunction(ast, p, ModuleKey)) :
             CallsOf(enclosingFunction(ast, p, ModuleKey))[k].loc = nodeAt(ast, p).loc

(***************************************************************************)
(* C10                                                                     *)
(***************************************************************************)
\* C10 (as claimed): for let x = 1, y; if (x > 0) y = 1; the build records the
\* "if" call and the "=" call of the branch in the module scope, "if" first.
C10_IfBeforeBranch ==
  (handlers = "build" /\ pc = "returned" /\ ast = ProgIf) =>
    \E i, j \in DOMAIN CallsOf(ModuleKey) :
      /\ i < j
      /\ CallsOf(ModuleKey)[i].loc = ast.body.items[2].loc
      /\ CallsOf(ModuleKey)[j].loc = ast.body.items[2].consequent.expression.loc

(***************************************************************************)
(* C11                                                                     *)
(***************************************************************************)
TypeKnown(i) == typeGraph.infos[i].type.name # UNDEFINED_TYPE
TypeKept(i) == typeGraph'.infos[i].type = typeGraph.infos[i].type
Pass2Step == handlers = "unit" /\ signals' = signals + 1 /\ trace'[1].h = "middle"

RECURSIVE directThrowTypes(_)
\* the types of the throw statements that stand in a statement list itself
directThrowTypes(items) ==
  IF items = <<>> THEN <<>>
  ELSE (IF Head(items).type = "ThrowStatement"
        THEN <<inferenceTypeForNode(Head(items).argument)>> ELSE <<>>)
       \o directThrowTypes(Tail(items))

TryPaths == {p \in pathsOf(ast, <<>>) : nodeAt(ast, p).type = "TryStatement"}

\* C12 (as claimed): when createModuleScope returns, every try block has a
\* scope whose throwable holds exactly the types of the throw statements in
\* the block (the programs here have no nested try and no call in a try
\* block).
C12_TryBlockThrowable ==
  (handlers = "build" /\ pc = "returned") =>
    \A p \in TryPaths :
      LET block == nodeAt(ast, p).block
      IN /\ getScopeKey(block) \in DOMAIN typeGraph.scopes
         /\ typeGraph.scopes[getScopeKey(block)].throwable
              = directThrowTypes(block.body.items)

(***************************************************************************)
(* C13                                                                     *)
(***************************************************************************)
\* C13 (as claimed): the pipeline applied to its own output returns, and
\* returns a node equal to that output.
C13_NormalisationIdempotent ==
  [][(handlers = "norm" /\ signals >= 1 /\ signals' = signals + 1) =>
       /\ raised' = NoError
       /\ ast' = ast
    ]_vars

(***************************************************************************)
(* C14                                                                     *)
(***************************************************************************)
\* C14 (as claimed): a Pass 2 visit of a function-like declaration that
\* returns has invoked the call checker once on the function's scope, and
\* has set the declaration's throwable to the error type of the scope when
\* the scope's throwable list is not empty, and to nothing otherwise.
C14_FunctionVisitChecks ==
  [][(Pass2Step /\ rawAt(ast, trace'[1].path).type \in FunctionLike /\ raised' = NoError) =>
       LET key == getScopeKey(rawAt(ast, trace'[1].path))
       IN /\ typeGraph'.checkCalls = Append(typeGraph.checkCalls, key)
          /\ typeGraph'.infos[typeGraph.scopes[key].declaration].throwable
               = IF typeGraph.scopes[key].throwable # <<>>
                 THEN inferenceErrorType(typeGraph, key) ELSE Null
    ]_vars

====
